---- MODULE Spec2Model ----
(***************************************************************************)
(* Model of WalletService (src/wallet_service.py): an in-memory wallet     *)
(* with two credit operations (topup, game_reward) and one read            *)
(* (get_wallet), all guarded by one threading.Lock.                        *)
(*                                                                         *)
(* Every thread performs one call.  A call is modelled statement by        *)
(* statement (pc), so that the interleavings the lock forbids are          *)
(* forbidden by the lock and by nothing else.  As in run_concurrency_test, *)
(* the main thread may make an initial deposit before the worker threads   *)
(* start; the workers then call concurrently.                              *)
(*                                                                         *)
(* amount_usd (a float in the source) is given as a pair <<n, d>> of       *)
(* integers, d > 0, that stands for the float n / d.                       *)
(***************************************************************************)
EXTENDS Integers, Sequences, FiniteSets, TLC

\* ---------------------------------------------------------------- bounds
NThreads == 2     \* worker threads
MaxTime == 1      \* the clock stops advancing at MaxTime

RecentLimit == 5

Main == 0
Workers == 1..NThreads
Threads == {Main} \cup Workers
Users == {"u1", "u2"}
RewardIds == {"snake-001"}

\* the initial deposit of the main thread: topup("u1", 100, "k1")
SetupUsers == {"u1"}
SetupUsd == {<<100, 1>>}
SetupKeys == {"k1"}

\* inputs that meet the documented contract (Spec): non-empty keys,
\* amount_usd = 2.5 and amount_coins = 1
KeyOrder == <<"k1", "k2", "k3">>
ValidKeys == {"k1", "k2", "k3"}
ValidUsd == {<<5, 2>>}
ValidCoins == {1}

\* any input (SpecAny): the empty key, amount_usd in {-1.5, 0.5, 1.5},
\* amount_coins in {-1, 0, 1}
Keys == {"", "k1", "k2"}
TopupAmounts == {<<-3, 2>>, <<1, 2>>, <<3, 2>>}
RewardAmounts == {-1, 0, 1}

None == -1
NoCall == [fn |-> "none"]
NoRet == [msg |-> "none"]

VARIABLES
    wallets,          \* self.wallets: user_id -> [balance, operations]
    idempotency_map,  \* self.idempotency_map: key -> [status, result, timestamp]
    lock,             \* self.lock: the thread holding it, or None
    now,              \* the last value time.time() returned
    pc,               \* per thread: the statement it is at
    call,             \* per thread: the function it called and its arguments
    amount_coins,     \* per thread: local amount_coins
    new_balance,      \* per thread: local new_balance
    result_message,   \* per thread: local result_message
    ret,              \* per thread: the value its call returned
    retval,           \* per thread: the value of its return statement, evaluated
                      \* inside the with block, until the call returns it
    path,             \* per thread: which branch its call took
    after,            \* per thread: the threads whose call had returned when it called
    seen,             \* per thread: [bal, nops] of its account when it acquired the lock
    left,             \* per thread: [bal, nops] of its account when it released the lock
    base,             \* balances at the start of the current batch of overlapping calls
    batch             \* the threads that called in the current batch

vars == <<wallets, idempotency_map, lock, now, pc, call, amount_coins, new_balance,
          result_message, ret, retval, path, after, seen, left, base, batch>>

\* ------------------------------------------------------- pure functions

\* int(amount_usd): truncation toward zero of q[1] / q[2]
IntOfUsd(q) == IF q[1] >= 0 THEN q[1] \div q[2] ELSE -((-q[1]) \div q[2])

\* f"Topup successful. Added {amount_coins} coins. New balance: {new_balance}"
TopupMessage(a, b) == [msg |-> "Topup successful", added |-> a, new_balance |-> b]

\* f"Reward successful. Added {amount_coins} coins. New balance: {new_balance}"
RewardMessage(a, b) == [msg |-> "Reward successful", added |-> a, new_balance |-> b]

TopupOperation(a, k, tm) == [type |-> "topup", amount |-> a, key |-> k, time |-> tm]

RewardOperation(a, rid, k, tm) ==
    [type |-> "reward", amount |-> a, reward_id |-> rid, key |-> k, time |-> tm]

NewWallet == [balance |-> 0, operations |-> <<>>]

\* _get_or_create_wallet without its membership test
GetOrCreateWallet_reset(ws, u) ==
    [x \in DOMAIN ws \cup {u} |-> IF x = u THEN NewWallet ELSE ws[x]]

\* _get_or_create_wallet: the store after the call
GetOrCreateWallet(ws, u) ==
    IF u \in DOMAIN ws THEN ws
    ELSE [x \in DOMAIN ws \cup {u} |-> IF x = u THEN NewWallet ELSE ws[x]]

\* insert op into a list sorted by time, descending, behind every element whose
\* time is >= op.time (the sort is stable, also with reverse=True)
RECURSIVE InsertDesc(_, _)
InsertDesc(sorted, op) ==
    IF sorted = <<>> THEN <<op>>
    ELSE IF Head(sorted).time >= op.time
         THEN <<Head(sorted)>> \o InsertDesc(Tail(sorted), op)
         ELSE <<op>> \o sorted

\* sorted(ops, key=lambda x: x['time'], reverse=True)
RECURSIVE SortedByTimeDesc(_)
SortedByTimeDesc(ops) ==
    IF ops = <<>> THEN <<>>
    ELSE InsertDesc(SortedByTimeDesc(SubSeq(ops, 1, Len(ops) - 1)), ops[Len(ops)])

\* s[-n:], the last n elements instead of the first n
Prefix_tail(s, n) == SubSeq(s, (IF Len(s) < n THEN 0 ELSE Len(s) - n) + 1, Len(s))

\* s[:n]
Prefix(s, n) == SubSeq(s, 1, IF Len(s) < n THEN Len(s) ELSE n)

RecentOps(ops) == Prefix(SortedByTimeDesc(ops), RecentLimit)

\* get_wallet indexing the store instead of using .get()
WalletView_raising(ws, u) ==
    IF u \notin DOMAIN ws
    THEN [error |-> "KeyError"]
    ELSE [userId |-> u, balance |-> ws[u].balance,
          recent_operations |-> RecentOps(ws[u].operations)]

\* the value get_wallet returns when it reads the store ws
WalletView(ws, u) ==
    IF u \notin DOMAIN ws
    THEN [userId |-> u, balance |-> 0, recent_operations |-> <<>>]
    ELSE [userId |-> u, balance |-> ws[u].balance,
          recent_operations |-> RecentOps(ws[u].operations)]

\* time.time(): the values a call can return after it returned tm
TimeValues(tm) == {x \in tm..(tm + 1) : x <= MaxTime}

\* a lock that never blocks
LockFree_unguarded(l) == TRUE

\* threading.Lock: acquire() succeeds only when nobody holds the lock
LockFree(l) == l = None

\* requests deduplicated by user instead of by key
IdemKey_byUser(c) == c.user_id

\* the key a credit call is looked up and recorded under
IdemKey(c) == c.idempotency_key

\* the idempotency check left out
KeySeen_never(im, k) == FALSE

\* idempotency_key in self.idempotency_map
KeySeen(im, k) == k \in DOMAIN im

\* self.idempotency_map[idempotency_key]['result']
RecordedResult(im, k) == im[k].result

\* ------------------------------------------------------------- helpers

RECURSIVE SumAmounts(_)
SumAmounts(ops) == IF ops = <<>> THEN 0 ELSE ops[1].amount + SumAmounts(Tail(ops))

Balance(ws, u) == IF u \in DOMAIN ws THEN ws[u].balance ELSE 0
History(ws, u) == IF u \in DOMAIN ws THEN ws[u].operations ELSE <<>>
Snapshot(ws, u) == [bal |-> Balance(ws, u), nops |-> Len(History(ws, u))]

IsCredit(t) == call[t].fn \in {"topup", "game_reward"}
Returned(t) == pc[t] = "done"
Pending(t) == pc[t] \notin {"idle", "done"}

\* ------------------------------------------------------------------ Init

Init ==
    /\ wallets = [u \in {} |-> NewWallet]
    /\ idempotency_map = [k \in {} |-> NoRet]
    /\ lock = None
    /\ now = 0
    /\ pc = [t \in Threads |-> "idle"]
    /\ call = [t \in Threads |-> NoCall]
    /\ amount_coins = [t \in Threads |-> 0]
    /\ new_balance = [t \in Threads |-> 0]
    /\ result_message = [t \in Threads |-> NoRet]
    /\ ret = [t \in Threads |-> NoRet]
    /\ retval = [t \in Threads |-> NoRet]
    /\ path = [t \in Threads |-> "none"]
    /\ after = [t \in Threads |-> {}]
    /\ seen = [t \in Threads |-> [bal |-> 0, nops |-> 0]]
    /\ left = [t \in Threads |-> [bal |-> 0, nops |-> 0]]
    /\ base = [u \in Users |-> 0]
    /\ batch = {}

\* --------------------------------------------------------------- actions

\* the main thread calls before any worker starts; the workers start once
\* the main thread is not in a call. Workers are interchangeable, so they are
\* numbered in the order they call.
MayInvoke(t) ==
    IF t = Main
    THEN \A o \in Workers : pc[o] = "idle"
    ELSE /\ pc[Main] \in {"idle", "done"}
         /\ \A o \in Workers : o < t => pc[o] # "idle"

\* keys are opaque to the service, so the keys of KeyOrder are numbered in the
\* order of their first use: a key may be used once every key before it has been
UsedKeys == {call[o].idempotency_key : o \in {x \in Threads : IsCredit(x)}}
MayUseKey(k) ==
    \A i \in 1..Len(KeyOrder) :
        KeyOrder[i] = k => \A j \in 1..(i - 1) : KeyOrder[j] \in UsedKeys

\* a caller starts a call: when no other call is in flight a new batch starts,
\* and the balances are noted as run_concurrency_test notes initial_state
Invoke(t, c) ==
    /\ call' = [call EXCEPT ![t] = c]
    /\ pc' = [pc EXCEPT ![t] = "acquire"]
    /\ after' = [after EXCEPT ![t] = {o \in Threads : Returned(o)}]
    /\ IF \A o \in Threads : ~Pending(o)
       THEN /\ base' = [u \in Users |-> Balance(wallets, u)]
            /\ batch' = {t}
       ELSE /\ base' = base
            /\ batch' = batch \cup {t}

\* topup(user_id, amount_usd, idempotency_key) up to the lock
topup(t, UsersIn, UsdIn, KeysIn) ==
    /\ pc[t] = "idle"
    /\ MayInvoke(t)
    /\ \E u \in UsersIn, h \in UsdIn, k \in KeysIn :
        /\ MayUseKey(k)
        /\ Invoke(t, [fn |-> "topup", user_id |-> u, amount_usd |-> h,
                      idempotency_key |-> k])
        /\ amount_coins' = [amount_coins EXCEPT ![t] = IntOfUsd(h)]
    /\ UNCHANGED <<wallets, idempotency_map, lock, now, new_balance,
                   result_message, ret, retval, path, seen, left>>

\* game_reward(user_id, amount_coins, reward_id, idempotency_key) up to the lock
game_reward(t, CoinsIn, KeysIn) ==
    /\ pc[t] = "idle"
    /\ MayInvoke(t)
    /\ \E u \in Users, a \in CoinsIn, r \in RewardIds, k \in KeysIn :
        /\ MayUseKey(k)
        /\ Invoke(t, [fn |-> "game_reward", user_id |-> u, amount_coins |-> a,
                      reward_id |-> r, idempotency_key |-> k])
        /\ amount_coins' = [amount_coins EXCEPT ![t] = a]
    /\ UNCHANGED <<wallets, idempotency_map, lock, now, new_balance,
                   result_message, ret, retval, path, seen, left>>

\* get_wallet(user_id) up to the lock
get_wallet(t) ==
    /\ pc[t] = "idle"
    /\ MayInvoke(t)
    /\ \E u \in Users : Invoke(t, [fn |-> "get_wallet", user_id |-> u])
    /\ UNCHANGED <<wallets, idempotency_map, lock, now, amount_coins, new_balance,
                   result_message, ret, retval, path, seen, left>>

\* with self.lock: (entry)
Acquire(t) ==
    /\ pc[t] = "acquire"
    /\ LockFree(lock)
    /\ lock' = t
    /\ pc' = [pc EXCEPT ![t] = IF IsCredit(t) THEN "check" ELSE "view"]
    /\ seen' = [seen EXCEPT ![t] = Snapshot(wallets, call[t].user_id)]
    /\ UNCHANGED <<wallets, idempotency_map, now, call, amount_coins, new_balance,
                   result_message, ret, retval, path, after, left, base, batch>>

\* the lock is left held when the call returns early with a recorded result
Leave_holding(t, value, branch) ==
    /\ lock' = IF branch = "replay" THEN lock ELSE None
    /\ retval' = [retval EXCEPT ![t] = value]
    /\ ret' = ret
    /\ path' = [path EXCEPT ![t] = branch]
    /\ left' = [left EXCEPT ![t] = Snapshot(wallets, call[t].user_id)]
    /\ pc' = [pc EXCEPT ![t] = "exit"]

\* leaving the with block by a return statement: its value is evaluated inside
\* the block and the lock is released; the call has not returned yet
Leave(t, value, branch) ==
    /\ lock' = None
    /\ retval' = [retval EXCEPT ![t] = value]
    /\ ret' = ret
    /\ path' = [path EXCEPT ![t] = branch]
    /\ left' = [left EXCEPT ![t] = Snapshot(wallets, call[t].user_id)]
    /\ pc' = [pc EXCEPT ![t] = "exit"]

\* the wallet fetched, and so created, before the key is looked up
CheckIdempotency_creating(t) ==
    /\ pc[t] = "check"
    /\ wallets' = GetOrCreateWallet(wallets, call[t].user_id)
    /\ IF KeySeen(idempotency_map, IdemKey(call[t]))
       THEN Leave(t, RecordedResult(idempotency_map, IdemKey(call[t])), "replay")
       ELSE /\ pc' = [pc EXCEPT ![t] = "create"]
            /\ UNCHANGED <<lock, ret, retval, path, left>>
    /\ UNCHANGED <<idempotency_map, now, call, amount_coins, new_balance,
                   result_message, after, seen, base, batch>>

\* if idempotency_key in self.idempotency_map: return the recorded result
CheckIdempotency(t) ==
    /\ pc[t] = "check"
    /\ IF KeySeen(idempotency_map, IdemKey(call[t]))
       THEN Leave(t, RecordedResult(idempotency_map, IdemKey(call[t])), "replay")
       ELSE /\ pc' = [pc EXCEPT ![t] = "create"]
            /\ UNCHANGED <<lock, ret, retval, path, left>>
    /\ UNCHANGED <<wallets, idempotency_map, now, call, amount_coins, new_balance,
                   result_message, after, seen, base, batch>>

\* wallet = self._get_or_create_wallet(user_id)
GetOrCreate(t) ==
    /\ pc[t] = "create"
    /\ wallets' = GetOrCreateWallet(wallets, call[t].user_id)
    /\ pc' = [pc EXCEPT ![t] = "read"]
    /\ UNCHANGED <<idempotency_map, lock, now, call, amount_coins, new_balance,
                   result_message, ret, retval, path, after, seen, left, base, batch>>

\* new_balance = wallet['balance'] + amount_coins
ComputeBalance(t) ==
    /\ pc[t] = "read"
    /\ new_balance' = [new_balance EXCEPT
                         ![t] = wallets[call[t].user_id].balance + amount_coins[t]]
    /\ pc' = [pc EXCEPT ![t] = "write"]
    /\ UNCHANGED <<wallets, idempotency_map, lock, now, call, amount_coins,
                   result_message, ret, retval, path, after, seen, left, base, batch>>

\* wallet['balance'] = new_balance
WriteBalance(t) ==
    /\ pc[t] = "write"
    /\ wallets' = [wallets EXCEPT ![call[t].user_id].balance = new_balance[t]]
    /\ pc' = [pc EXCEPT ![t] = "append"]
    /\ UNCHANGED <<idempotency_map, lock, now, call, amount_coins, new_balance,
                   result_message, ret, retval, path, after, seen, left, base, batch>>

\* the operation record a credit call builds at time tm
Operation(t, tm) ==
    IF call[t].fn = "topup"
    THEN TopupOperation(amount_coins[t], call[t].idempotency_key, tm)
    ELSE RewardOperation(amount_coins[t], call[t].reward_id,
                         call[t].idempotency_key, tm)

\* operation = {...}; wallet['operations'].append(operation)
AppendOperation(t) ==
    /\ pc[t] = "append"
    /\ \E tm \in TimeValues(now) :
        /\ now' = tm
        /\ wallets' = [wallets EXCEPT ![call[t].user_id].operations =
                                          Append(@, Operation(t, tm))]
    /\ pc' = [pc EXCEPT ![t] = "record"]
    /\ UNCHANGED <<idempotency_map, lock, call, amount_coins, new_balance,
                   result_message, ret, retval, path, after, seen, left, base, batch>>

\* the result message a credit call builds
ResultMessage(t) ==
    IF call[t].fn = "topup"
    THEN TopupMessage(amount_coins[t], new_balance[t])
    ELSE RewardMessage(amount_coins[t], new_balance[t])

\* result_message = ...; self.idempotency_map[idempotency_key] = {...}
RecordIdempotency(t) ==
    /\ pc[t] = "record"
    /\ result_message' = [result_message EXCEPT ![t] = ResultMessage(t)]
    /\ \E tm \in TimeValues(now) :
        /\ now' = tm
        /\ idempotency_map' =
             [k \in DOMAIN idempotency_map \cup {IdemKey(call[t])} |->
                 IF k = IdemKey(call[t])
                 THEN [status |-> "completed", result |-> ResultMessage(t),
                       timestamp |-> tm]
                 ELSE idempotency_map[k]]
    /\ pc' = [pc EXCEPT ![t] = "return"]
    /\ UNCHANGED <<wallets, lock, call, amount_coins, new_balance,
                   ret, retval, path, after, seen, left, base, batch>>

\* return result_message (end of the with block)
ReturnResult(t) ==
    /\ pc[t] = "return"
    /\ Leave(t, result_message[t], "applied")
    /\ UNCHANGED <<wallets, idempotency_map, now, call, amount_coins, new_balance,
                   result_message, after, seen, base, batch>>

\* get_wallet fetching the wallet with _get_or_create_wallet
ViewWallet_creating(t) ==
    /\ pc[t] = "view"
    /\ wallets' = GetOrCreateWallet(wallets, call[t].user_id)
    /\ Leave(t, WalletView(wallets, call[t].user_id), "view")
    /\ UNCHANGED <<idempotency_map, now, call, amount_coins, new_balance,
                   result_message, after, seen, base, batch>>

\* the body of get_wallet under the lock
ViewWallet(t) ==
    /\ pc[t] = "view"
    /\ Leave(t, WalletView(wallets, call[t].user_id), "view")
    /\ UNCHANGED <<wallets, idempotency_map, now, call, amount_coins, new_balance,
                   result_message, after, seen, base, batch>>

\* the call returns to its caller, after the lock was released
Return(t) ==
    /\ pc[t] = "exit"
    /\ ret' = [ret EXCEPT ![t] = retval[t]]
    /\ pc' = [pc EXCEPT ![t] = "done"]
    /\ UNCHANGED <<wallets, idempotency_map, lock, now, call, amount_coins, new_balance,
                   result_message, retval, path, after, seen, left, base, batch>>

\* the statements of a call that is under way
Step(t) ==
    \/ Acquire(t)
    \/ CheckIdempotency(t)
    \/ GetOrCreate(t)
    \/ ComputeBalance(t)
    \/ WriteBalance(t)
    \/ AppendOperation(t)
    \/ RecordIdempotency(t)
    \/ ReturnResult(t)
    \/ ViewWallet(t)
    \/ Return(t)

\* the initial deposit, then NThreads workers, each calling once with inputs
\* that meet the contract
Next ==
    \/ topup(Main, SetupUsers, SetupUsd, SetupKeys)
    \/ \E t \in Workers :
        \/ topup(t, Users, ValidUsd, ValidKeys)
        \/ game_reward(t, ValidCoins, ValidKeys)
        \/ get_wallet(t)
    \/ \E t \in Threads : Step(t)

Spec == Init /\ [][Next]_vars

\* NThreads workers, each calling once with any input
NextAny ==
    \E t \in Workers :
        \/ topup(t, Users, TopupAmounts, Keys)
        \/ game_reward(t, RewardAmounts, Keys)
        \/ get_wallet(t)
        \/ Step(t)

SpecAny == Init /\ [][NextAny]_vars

\* ---------------------------------------------------- properties: helpers

Key(t) == call[t].idempotency_key
User(t) == call[t].user_id
Called(t) == pc[t] # "idle"
Quiescent == \A t \in Threads : ~Pending(t)

\* t has taken, or is taking, the branch that applies its credit
Applier(t) ==
    \/ pc[t] \in {"create", "read", "write", "append", "record", "return"}
    \/ path[t] = "applied"

\* the calls of t and o overlapped: neither had returned when the other started
Overlap(t, o) == t # o /\ Called(t) /\ Called(o) /\ t \notin after[o] /\ o \notin after[t]

RECURSIVE SumCoins(_)
SumCoins(S) ==
    IF S = {} THEN 0
    ELSE LET t == CHOOSE x \in S : TRUE IN amount_coins[t] + SumCoins(S \ {t})

\* the operation records with key k, over all accounts, as <<user, index>>
RecordsOf(k) ==
    {ui \in UNION {{<<u, i>> : i \in 1..Len(wallets[u].operations)} : u \in DOMAIN wallets} :
        wallets[ui[1]].operations[ui[2]].key = k}

\* the credit calls of the current batch, and whether their keys are pairwise
\* distinct and used by no earlier call
BatchCredits == {t \in batch : IsCredit(t)}
BatchKeysDistinct ==
    \A t \in BatchCredits : \A o \in Threads \ {t} :
        (Called(o) /\ IsCredit(o)) => Key(o) # Key(t)

\* ------------------------------------------------------------------- C1
\* C1: no lost updates. Once all calls of a batch of concurrent credit calls
\* with pairwise distinct, fresh keys have returned, every account's balance
\* is its balance before the batch plus the amounts of the batch's credits
\* to it.
C1_NoLostUpdates ==
    (Quiescent /\ BatchKeysDistinct) =>
        \A u \in Users :
            Balance(wallets, u) =
                base[u] + SumCoins({t \in BatchCredits : User(t) = u})

\* two overlapping credits, a topup and a reward, on an account whose
\* balance was not 0 before them, have returned
C1_Witness ==
    /\ Quiescent
    /\ BatchKeysDistinct
    /\ \E t, o \in BatchCredits :
        /\ Overlap(t, o)
        /\ User(t) = User(o)
        /\ call[t].fn = "topup" /\ call[o].fn = "game_reward"
        /\ base[User(t)] # 0
        /\ Returned(t) /\ Returned(o)

\* ------------------------------------------------------------------- C2
\* a credit call t2 repeats t1: same key, same account, started after t1 returned
Repeats(t2, t1) ==
    /\ t1 # t2
    /\ Returned(t1) /\ Returned(t2)
    /\ IsCredit(t1) /\ IsCredit(t2)
    /\ Key(t1) = Key(t2)
    /\ User(t1) = User(t2)
    /\ t1 \in after[t2]

\* C2 as stated: a repeated credit call returns the result of the first call,
\* and the balance after it equals the balance after the first call, also
\* when other credits were applied to the account in between.
C2_Original ==
    \A t1, t2 \in Threads :
        Repeats(t2, t1) =>
            /\ ret[t2] = ret[t1]
            /\ left[t2].bal = left[t1].bal

\* C2 as amended: a repeated credit call returns the result of the first call
\* and leaves the balance as it found it; the balance after it is the balance
\* after the first call plus the amounts of the credits applied to the account
\* in between.
C2_IdempotentReplay ==
    \A t1, t2 \in Threads :
        Repeats(t2, t1) =>
            /\ ret[t2] = ret[t1]
            /\ left[t2] = seen[t2]
            /\ left[t2].nops >= left[t1].nops
            /\ left[t2].bal = left[t1].bal
                 + SumAmounts(SubSeq(History(wallets, User(t1)),
                                     left[t1].nops + 1, left[t2].nops))

\* a call was repeated after a credit with another key was applied to the
\* account in between: the result returned again names the old balance
C2_Witness ==
    \E t1, t2 \in Threads :
        /\ Repeats(t2, t1)
        /\ path[t1] = "applied"
        /\ left[t2].nops = left[t1].nops + 1
        /\ ret[t2].new_balance # left[t2].bal

\* ------------------------------------------------------------------- C3
\* the credit calls made with key k
CallsWith(k) == {t \in Threads : Called(t) /\ IsCredit(t) /\ Key(t) = k}

\* C3: a key is applied at most once. Of the credit calls that carry one key,
\* at most one takes the applying branch and at most one operation record
\* bears the key; once any of them has returned exactly one has applied, a
\* call that applied added its amount and one record, a call that did not
\* left balance and history as it found them, and all returned the same value.
C3_AppliedOnce ==
    \A k \in ValidKeys \cup Keys :
        LET T == CallsWith(k)
            A == {t \in T : Applier(t)}
        IN  /\ Cardinality(A) <= 1
            /\ Cardinality(RecordsOf(k)) <= 1
            /\ (\E t \in T : Returned(t)) =>
                   /\ Cardinality(A) = 1
                   /\ Cardinality(RecordsOf(k)) = 1
            /\ \A t \in T : Returned(t) =>
                   /\ path[t] \in {"applied", "replay"}
                   /\ path[t] = "applied" =>
                        /\ left[t].bal = seen[t].bal + amount_coins[t]
                        /\ left[t].nops = seen[t].nops + 1
                   /\ path[t] = "replay" => left[t] = seen[t]
            /\ \A t, o \in T : (Returned(t) /\ Returned(o)) => ret[t] = ret[o]

\* two overlapping credit calls with one key, a topup and a reward, have both
\* returned
C3_Witness ==
    \E t, o \in Threads :
        /\ Overlap(t, o)
        /\ IsCredit(t) /\ IsCredit(o)
        /\ Key(t) = Key(o)
        /\ call[t].fn # call[o].fn
        /\ Returned(t) /\ Returned(o)
        /\ path[t] = "applied" /\ path[o] = "replay"

\* ------------------------------------------------------------------- C4
\* the error value the specification names for a rejected credit call
InvalidArgument == [error |-> "InvalidArgument"]

\* C4: a credit call whose amount is 0 or negative returns InvalidArgument
\* and leaves the balance, the history and the idempotency table alone.
C4_InvalidAmountRejected ==
    \A t \in Threads :
        (Returned(t) /\ IsCredit(t) /\ amount_coins[t] <= 0) =>
            /\ ret[t] = InvalidArgument
            /\ left[t] = seen[t]
            /\ RecordsOf(Key(t)) = {}

\* ------------------------------------------------------------------- C5
\* C5: a credit call whose idempotency key is empty returns InvalidArgument,
\* creates no account, appends no operation and records nothing under the key.
C5_EmptyKeyRejected ==
    \A t \in Threads :
        (Returned(t) /\ IsCredit(t) /\ Key(t) = "") =>
            /\ ret[t] = InvalidArgument
            /\ left[t] = seen[t]
            /\ "" \notin DOMAIN idempotency_map

\* ------------------------------------------------------------------- C6
\* the keys of the operation records of all accounts
RecordedKeys(ws) ==
    UNION {{ws[u].operations[i].key : i \in 1..Len(ws[u].operations)} : u \in DOMAIN ws}

\* t executes the body of get_wallet in this step
Views(t) == pc[t] = "view" /\ pc'[t] = "exit"

\* C6: no torn reads. The balance get_wallet returns is the sum of the amounts
\* of the operation records the account's history holds at the moment of the
\* read, and at that moment the keys of the idempotency table are the keys of
\* the operation records.
C6_NoTornReads ==
    [][\A t \in Threads :
          Views(t) =>
              /\ retval'[t].balance = SumAmounts(History(wallets, User(t)))
              /\ DOMAIN idempotency_map = RecordedKeys(wallets)]_vars

\* a get_wallet that overlapped a credit call on the same account has returned
\* a balance other than 0
C6_Witness ==
    \E t, o \in Threads :
        /\ Overlap(t, o)
        /\ call[t].fn = "get_wallet" /\ IsCredit(o)
        /\ User(t) = User(o)
        /\ Returned(t)
        /\ ret[t].balance # 0
        /\ Applier(o)

\* ------------------------------------------------------------------- C7
\* C7: whenever no thread is inside the critical section, every account's
\* balance is the sum of the amounts of the operation records of its history.
C7_BalanceIsSum ==
    lock = None =>
        \A u \in DOMAIN wallets :
            wallets[u].balance = SumAmounts(wallets[u].operations)

\* an account holds two operation records and a balance other than 0 while
\* the lock is free
C7_Witness ==
    /\ lock = None
    /\ \E u \in DOMAIN wallets :
        /\ Len(wallets[u].operations) = 2
        /\ wallets[u].balance # 0

\* ------------------------------------------------------------------- C8
\* C8: every account's balance is >= 0 in every reachable state.
C8_BalanceNonNegative ==
    \A u \in DOMAIN wallets : wallets[u].balance >= 0

\* ------------------------------------------------------------------- C9
\* t and o are credit calls on one account with different keys that no other
\* call uses
TwoTokens(t, o) ==
    /\ t # o
    /\ Returned(t) /\ Returned(o)
    /\ IsCredit(t) /\ IsCredit(o)
    /\ User(t) = User(o)
    /\ Key(t) # Key(o)
    /\ CallsWith(Key(t)) = {t}
    /\ CallsWith(Key(o)) = {o}

\* C9: cross-token independence. Two credit calls on one account with
\* different keys are both applied: each adds its amount to the balance and
\* appends its own operation record.
C9_CrossTokenIndependence ==
    \A t, o \in Threads :
        TwoTokens(t, o) =>
            /\ path[t] = "applied"
            /\ left[t].bal = seen[t].bal + amount_coins[t]
            /\ left[t].nops = seen[t].nops + 1
            /\ History(wallets, User(t))[left[t].nops].key = Key(t)
            /\ History(wallets, User(t))[left[t].nops].amount = amount_coins[t]
            /\ left[t].nops # left[o].nops

\* two calls that differ in the key only have both returned
C9_Witness ==
    \E t, o \in Threads :
        /\ TwoTokens(t, o)
        /\ [call[t] EXCEPT !.idempotency_key = Key(o)] = call[o]

\* ------------------------------------------------------------------ C10
\* no credit has been applied, or is being applied, to account u
NeverCredited(u) == \A o \in Threads : (IsCredit(o) /\ User(o) = u) => ~Applier(o)

\* C10: get_wallet on an account that no credit was ever applied to returns
\* balance 0 and an empty list of recent operations, not an error.
C10_ZeroStateDefault ==
    [][\A t \in Threads :
          (Views(t) /\ NeverCredited(User(t))) =>
              retval'[t] = [userId |-> User(t), balance |-> 0,
                            recent_operations |-> <<>>]]_vars

\* get_wallet has returned for an account that no credit was applied to,
\* though one call named the account and the other account was credited
C10_Witness ==
    \E t, o \in Threads :
        /\ call[t].fn = "get_wallet" /\ Returned(t)
        /\ NeverCredited(User(t))
        /\ IsCredit(o) /\ User(o) = User(t) /\ path[o] = "replay" /\ o \in after[t]
        /\ DOMAIN wallets # {}

\* ----------------------------------------------- get_wallet on long histories
\* An account's history grows by one record per applied credit, so a history
\* longer than RecentLimit takes more credits than the threads above make.
\* SpecView starts from a store one account of which already has a history of
\* up to MaxOps records, as left by that many applied topups of one coin with
\* distinct keys, and lets the main thread call get_wallet. time.time() is the
\* wall clock, which can be set back between two calls, so the timestamps of a
\* history are any values, in any order. A topup reads the clock a second time
\* for its idempotency record, right after the read for its operation record,
\* and gets the same or the next value, as in RecordIdempotency; the last
\* value read from the clock is the timestamp of the last idempotency record.

MaxOps == 6
HistKeys == <<"h1", "h2", "h3", "h4", "h5", "h6", "h7", "h8">>
ViewUser == "u1"

\* the history of topups of one coin at the times tms, in append order
HistoryAt(tms) == [i \in DOMAIN tms |-> TopupOperation(1, HistKeys[i], tms[i])]

\* the store after these topups to ViewUser
StoreAt(tms) ==
    IF Len(tms) = 0 THEN [u \in {} |-> NewWallet]
    ELSE [u \in {ViewUser} |-> [balance |-> Len(tms), operations |-> HistoryAt(tms)]]

\* the second clock readings these topups can get, one per topup
TableTimes(tms) ==
    {tss \in [DOMAIN tms -> 0..MaxTime] :
        \A i \in DOMAIN tms : tss[i] \in TimeValues(tms[i])}

\* the idempotency table after these topups, recorded at the times tss
TableAt(tss) ==
    [k \in {HistKeys[i] : i \in DOMAIN tss} |->
        LET i == CHOOSE j \in DOMAIN tss : HistKeys[j] = k
        IN  [status |-> "completed", result |-> TopupMessage(1, i),
             timestamp |-> tss[i]]]

InitView ==
    /\ \E n \in 0..MaxOps : \E tms \in [1..n -> 0..MaxTime] :
        \E tss \in TableTimes(tms) :
            /\ wallets = StoreAt(tms)
            /\ idempotency_map = TableAt(tss)
            /\ now = IF n = 0 THEN 0 ELSE tss[n]
    /\ lock = None
    /\ pc = [t \in Threads |-> "idle"]
    /\ call = [t \in Threads |-> NoCall]
    /\ amount_coins = [t \in Threads |-> 0]
    /\ new_balance = [t \in Threads |-> 0]
    /\ result_message = [t \in Threads |-> NoRet]
    /\ ret = [t \in Threads |-> NoRet]
    /\ retval = [t \in Threads |-> NoRet]
    /\ path = [t \in Threads |-> "none"]
    /\ after = [t \in Threads |-> {}]
    /\ seen = [t \in Threads |-> [bal |-> 0, nops |-> 0]]
    /\ left = [t \in Threads |-> [bal |-> 0, nops |-> 0]]
    /\ base = [u \in Users |-> 0]
    /\ batch = {}

NextView ==
    \/ get_wallet(Main)
    \/ Acquire(Main)
    \/ ViewWallet(Main)
    \/ Return(Main)

SpecView == InitView /\ [][NextView]_vars

\* what get_wallet returned to t, and the history it was called on
Recent(t) == ret[t].recent_operations
Viewed(t) == Returned(t) /\ call[t].fn = "get_wallet"
Min(a, b) == IF a < b THEN a ELSE b
Range(s) == {s[i] : i \in DOMAIN s}

\* ------------------------------------------------------------------ C11
\* C11: recency ordering. For an account whose history has n records,
\* get_wallet returns exactly min(n, 5) of them, each once, with
\* non-increasing timestamps, and no record it leaves out has a timestamp
\* strictly greater than one it returns.
C11_RecencyOrdering ==
    \A t \in Threads :
        Viewed(t) =>
            LET ops == History(wallets, User(t))
                r == Recent(t)
            IN  /\ Len(r) = Min(Len(ops), 5)
                /\ Range(r) \subseteq Range(ops)
                /\ \A i, j \in DOMAIN r : i < j =>
                      r[i] # r[j] /\ r[i].time >= r[j].time
                /\ \A op \in Range(ops) \ Range(r) :
                      \A i \in DOMAIN r : op.time <= r[i].time

\* get_wallet has returned five records of a longer history whose newest
\* record was not appended last
C11_Witness ==
    \E t \in Threads :
        /\ Viewed(t)
        /\ LET ops == History(wallets, User(t))
           IN  /\ Len(ops) > 5
               /\ Len(Recent(t)) = 5
               /\ \E i \in DOMAIN ops : ops[i].time > ops[Len(ops)].time
               /\ \E op \in Range(ops) \ Range(Recent(t)) :
                     op.time < Recent(t)[5].time

\* ------------------------------------------------------------------ C12
\* C12: co-creation. Whenever no thread is inside the critical section, the
\* keys of the idempotency table are exactly the keys of the operation
\* records of all histories, and each of them is the key of exactly one
\* record of exactly one account.
C12_CoCreation ==
    lock = None =>
        /\ DOMAIN idempotency_map = RecordedKeys(wallets)
        /\ \A k \in DOMAIN idempotency_map : Cardinality(RecordsOf(k)) = 1

\* nobody holds the lock, two accounts have records, two keys are
\* recorded, and a third call has been answered from the table
C12_Witness ==
    /\ lock = None
    /\ Cardinality(DOMAIN idempotency_map) = 2
    /\ \A u \in Users : Len(History(wallets, u)) >= 1
    /\ \E t \in Threads : Returned(t) /\ path[t] = "replay"

\* ------------------------------------------------------------------ C13
\* C13: idempotency records are write-once. A key that is in the table with
\* some result is, after every step, still in the table with the same
\* result; so it is in every later state.
C13_WriteOnce ==
    [][\A k \in DOMAIN idempotency_map :
          /\ k \in DOMAIN idempotency_map'
          /\ idempotency_map'[k].result = idempotency_map[k].result]_vars

\* a key was recorded, a later call with that key was answered, and another
\* key was recorded after that
C13_Witness ==
    \E t, o, n \in Threads :
        /\ Returned(t) /\ path[t] = "applied"
        /\ Returned(o) /\ path[o] = "replay" /\ Key(o) = Key(t) /\ t \in after[o]
        /\ Returned(n) /\ path[n] = "applied" /\ o \in after[n]
        /\ idempotency_map[Key(t)].result = ret[t]

\* ------------------------------------------------------------------ C14
\* t's call is a credit and takes a step, up to the check of its key or from
\* there to its return, while its key is already in the table
ReplayStep(t) ==
    /\ pc[t] \in {"idle", "acquire", "check"} \/ (pc[t] = "exit" /\ path[t] = "replay")
    /\ pc'[t] # pc[t]
    /\ call'[t].fn \in {"topup", "game_reward"}
    /\ call'[t].idempotency_key \in DOMAIN idempotency_map

\* C14: the replay path mutates nothing, whatever the other arguments. A
\* credit call whose key is already in the table leaves all balances, all
\* histories, the set of accounts and the table unchanged, also when it
\* names a different account (a never-seen one is not created), a different
\* amount or the other credit kind than the call that recorded the key; its
\* check of the key ends it, and it returns the result of that call.
C14_ReplayMutatesNothing ==
    [][\A t \in Threads :
          ReplayStep(t) =>
              /\ wallets' = wallets
              /\ idempotency_map' = idempotency_map
              /\ pc[t] = "check" =>
                    /\ pc'[t] = "exit"
                    /\ \E o \in Threads \ {t} :
                          /\ path[o] = "applied"
                          /\ Key(o) = Key(t)
                          /\ retval'[t] = retval[o]
              /\ pc[t] = "exit" => ret'[t] = retval[t]]_vars

\* a reward call with the key of an earlier topup, for another amount and
\* for an account no credit was applied to, has returned; the account does
\* not exist
C14_Witness ==
    \E t, o \in Threads :
        /\ Returned(t) /\ path[t] = "replay"
        /\ Returned(o) /\ path[o] = "applied" /\ Key(o) = Key(t)
        /\ call[t].fn = "game_reward" /\ call[o].fn = "topup"
        /\ User(t) # User(o)
        /\ amount_coins[t] # amount_coins[o]
        /\ User(t) \notin DOMAIN wallets
        /\ ret[t] = ret[o]

\* ------------------------------------------------------------------ C15
\* t is inside the lock-guarded section of topup, game_reward or get_wallet
InSection(t) ==
    pc[t] \in {"check", "create", "read", "write", "append", "record", "return", "view"}

\* C15: mutual exclusion. At most one thread at a time is inside a
\* lock-guarded section of topup, game_reward or get_wallet, and it is the
\* one that holds the lock; so while a credit call is anywhere between its
\* check and its return, no other credit or get_wallet call is inside its
\* section.
C15_MutualExclusion ==
    \A t \in Threads :
        InSection(t) =>
            /\ lock = t
            /\ \A o \in Threads \ {t} : ~InSection(o)

\* a credit has written its balance and not yet appended its record, while
\* a get_wallet for the same account waits for the lock
C15_Witness ==
    \E t, g \in Threads :
        /\ pc[t] = "append" /\ lock = t
        /\ pc[g] = "acquire" /\ call[g].fn = "get_wallet" /\ User(g) = User(t)

\* ------------------------------------------------------------------ C16
\* The calls of the threads above, the topups with two keys to choose from
\* and the rewards with the key of the initial deposit, under fair
\* scheduling: a thread that can go on taking its next step takes it. A
\* thread waiting for the lock can take its step when the lock is free; each
\* thread makes one call, so the lock stays free for the last waiting
\* thread, and weak fairness is all the scheduling has to give.
FairKeys == {"k1", "k2"}

NextFair ==
    \/ topup(Main, SetupUsers, SetupUsd, SetupKeys)
    \/ \E t \in Workers :
          \/ topup(t, SetupUsers, ValidUsd, FairKeys)
          \/ game_reward(t, ValidCoins, SetupKeys)
          \/ get_wallet(t)
    \/ \E t \in Threads : Step(t)

SpecFair == Init /\ [][NextFair]_vars /\ \A t \in Threads : WF_vars(Step(t))

\* C16: no deadlock and eventual return. In no reachable state is a call
\* pending while no thread can take a step; the lock is released on every
\* exit path, the first application, the replay's early return and
\* get_wallet's returns, so no thread that left its with block holds it; and
\* under fair scheduling every call that was made eventually returns.
C16_EventualReturn ==
    /\ []((\E t \in Threads : Pending(t)) =>
             \E t \in Threads : Pending(t) /\ ENABLED Step(t))
    /\ [](\A t \in Threads : pc[t] \in {"exit", "done"} => lock # t)
    /\ \A t \in Threads : Pending(t) ~> Returned(t)

\* a first application, a replay and a get_wallet of an unknown account
\* have all returned, the last two after contending for the lock, and the
\* lock is free
C16_Witness ==
    \E a, r, v \in Threads :
        /\ Returned(a) /\ path[a] = "applied"
        /\ Returned(r) /\ path[r] = "replay"
        /\ Returned(v) /\ path[v] = "view" /\ User(v) \notin DOMAIN wallets
        /\ Overlap(r, v)
        /\ lock = None

\* ------------------------------------------------------------------ C17
\* C17: get_wallet is non-mutating. No step of a get_wallet call, from the
\* call to the return, changes the account store or the idempotency table;
\* a get_wallet for an unknown account does not create an entry for it.
C17_GetWalletNonMutating ==
    [][\A t \in Threads :
          (call'[t].fn = "get_wallet" /\ pc'[t] # pc[t]) =>
              /\ wallets' = wallets
              /\ idempotency_map' = idempotency_map]_vars

\* get_wallet has returned for an account that does not exist, while
\* another account does and has a recorded credit
C17_Witness ==
    \E t \in Threads :
        /\ Viewed(t)
        /\ User(t) \notin DOMAIN wallets
        /\ DOMAIN wallets # {}
        /\ DOMAIN idempotency_map # {}
        /\ ret[t].balance = 0

\* ------------------------------------------------------------------ C18
\* the timestamps of ops do not decrease in append order
NonDecreasing(ops) == \A i, j \in DOMAIN ops : i < j => ops[i].time <= ops[j].time

\* the last min(n, 5) records of ops, the record appended last first
LastFiveReversed(ops) ==
    [i \in 1..Min(Len(ops), 5) |-> ops[Len(ops) + 1 - i]]

\* C18: get_wallet returns the last 5 operations. For an account whose
\* history has n records in append order, with timestamps that do not
\* decrease in append order and may tie, get_wallet returns exactly the last
\* min(n, 5) appended records, in reverse append order.
C18_LastFive ==
    \A t \in Threads :
        (Viewed(t) /\ NonDecreasing(History(wallets, User(t)))) =>
            Recent(t) = LastFiveReversed(History(wallets, User(t)))

\* ------------------------------------------------------------------ C19
\* C19: recorded results follow the linearization order. For every account
\* and every i, the result stored under the key of the i-th record of the
\* account's history reports as new balance the sum of the amounts of the
\* first i records, and as added amount the amount of the i-th record, in
\* every interleaving of the calls; and the result is stored as soon as the
\* lock is free again.
C19_ResultsFollowHistory ==
    \A u \in DOMAIN wallets :
        LET ops == wallets[u].operations
        IN  \A i \in DOMAIN ops :
                /\ lock = None => ops[i].key \in DOMAIN idempotency_map
                /\ ops[i].key \in DOMAIN idempotency_map =>
                      LET res == idempotency_map[ops[i].key].result
                      IN  /\ res.new_balance = SumAmounts(SubSeq(ops, 1, i))
                          /\ res.added = ops[i].amount

\* three credits to one account, the last two overlapping and of different
\* kinds, have returned and their results are stored
C19_Witness ==
    /\ Quiescent
    /\ \E u \in DOMAIN wallets :
        /\ Len(wallets[u].operations) = 3
        /\ \A i \in 1..3 : wallets[u].operations[i].key \in DOMAIN idempotency_map
        /\ wallets[u].operations[2].type # wallets[u].operations[3].type
    /\ \E t, o \in Workers : Overlap(t, o) /\ path[t] = "applied" /\ path[o] = "applied"

====
